---- MODULE Spec2Model ----
(***************************************************************************)
(* Authentication and session-token subsystem of finance-planner-web.      *)
(*                                                                         *)
(* Two state machines share this module:                                   *)
(*   Spec     the users table of the relational store together with the   *)
(*            request handlers of backend/auth (reset_password,            *)
(*            confirm_reset, login) and the stub handlers of               *)
(*            backend/user-auth, run by concurrent invocations whose       *)
(*            store statements interleave;                                 *)
(*   SpecJwt  create_jwt_token / verify_jwt_token over a wall clock.       *)
(*                                                                         *)
(* Time is counted in ticks, TicksPerSec ticks to the second, so that      *)
(* time.time() (a float) and int(time.time()) (whole seconds) differ.      *)
(***************************************************************************)
EXTENDS Integers, Sequences, FiniteSets, TLC

VARIABLES
    users,      \* users table: id -> row (committed state of the store)
    clock,      \* wall clock, in ticks
    nadv,       \* number of clock advances so far (bounds the model)
    nreq,       \* number of random draws (reset tokens, salts) so far
    req,        \* one slot per concurrent handler invocation
    issued,     \* history: reset token -> [uid, at, expires] as committed
    latest,     \* history: user id -> the reset token committed last
    consumed,   \* history: reset token -> number of confirm_reset answered 200
    last,       \* the invocation that just ended, with its response, until
                \* the response is handed to the client
    jwt,        \* state of the token codec machine (SpecJwt)
    records     \* goals, calendar_events and transactions tables:
                \* table -> id -> row

vars ==
    <<users, clock, nadv, nreq, req, issued, latest, consumed, last, jwt,
      records>>

---------------------------------------------------------------------------
(* Bounds of the model *)

NProcs == 2
MaxReq == 3
MaxAdvance == 2
TicksPerSec == 2
StartSec == 1000

(* Program constants *)

RESET_TTL == 3600
MIN_PASSWORD == 6
JWT_TTL == 7 * 24 * 3600

Procs == 1 .. NProcs

---------------------------------------------------------------------------
(* Text helpers: an email is a sequence of one-character strings *)

LowerChar(c) ==
    CASE c = "A" -> "a"
      [] c = "B" -> "b"
      [] c = "N" -> "n"
      [] c = "X" -> "x"
      [] OTHER -> c

\* str.lower()
Lower(s) == [i \in 1 .. Len(s) |-> LowerChar(s[i])]

RECURSIVE LStrip(_)
LStrip(s) == IF s # <<>> /\ Head(s) = " " THEN LStrip(Tail(s)) ELSE s

RECURSIVE RStrip(_)
RStrip(s) ==
    IF s # <<>> /\ s[Len(s)] = " " THEN RStrip(SubSeq(s, 1, Len(s) - 1)) ELSE s

\* str.strip()
Strip(s) == RStrip(LStrip(s))

\* data.get('email', '').lower().strip()
NormalizeEmail(raw) == Strip(Lower(raw))

EmailA == <<"a", "@", "x">>
EmailB == <<"b", "@", "x">>
EmailN == <<"n", "@", "x">>

\* request bodies' email field
RawEmails == {EmailA, <<" ", "A", "@", "X">>, EmailN, <<>>, <<" ">>}

\* request bodies' password field
Passwords == {"", "abc", "secret1", "newpass1"}

---------------------------------------------------------------------------
(* Time *)

\* time.time() + 3600, in ticks
ResetExpiry(now) == now + RESET_TTL * TicksPerSec

\* to_timestamp(%s): a timestamp column value
Timestamp(t) == <<"ts", t>>

Jumps == {1, RESET_TTL * TicksPerSec - 1}

---------------------------------------------------------------------------
(* PasswordHasher: bcrypt, content-symbolic *)

\* bcrypt.hashpw(password, salt): the salt is embedded in the output
Hashpw(password, salt) == [pw |-> password, salt |-> salt]

\* Faulty variant: every password passes
Checkpw_Any(password, hash) == TRUE

\* bcrypt.checkpw(password, hash): re-hash under the stored salt and compare
Checkpw(password, hash) == Hashpw(password, hash.salt) = hash

---------------------------------------------------------------------------
(* Store values *)

NULL == <<"NULL">>
EmptyTok == <<>>                     \* the empty string as a token
Tok(n) == <<"tok", n>>               \* secrets.token_urlsafe(32), n-th draw
ResetTokens == {Tok(n) : n \in 1 .. MaxReq}
BogusTok == <<"tok", 0>>             \* a string that was never drawn

UserIds == {1, 2}

InitUsers ==
    [u \in UserIds |->
        [email |-> IF u = 1 THEN EmailA ELSE EmailB,
         password_hash |-> Hashpw("secret1", 0),
         reset_token |-> NULL,
         reset_token_expires |-> NULL]]

\* the tables of goals, calendar and transactions
Tables == {"goals", "calendar_events", "transactions"}

\* Record 1 of every table belongs to user 1 and record 2 to user 2; so
\* does tag 1 and tag 2. transaction_tags is the set of its rows
\* <<transaction_id, tag_id>>, empty at first.
InitRecords ==
    [t \in Tables |->
        [i \in UserIds |->
            CASE t = "goals" ->
                   [user_id |-> i, title |-> <<"o">>, target_amount |-> 1]
              [] t = "calendar_events" -> [user_id |-> i, title |-> <<"o">>]
              [] OTHER ->
                   [user_id |-> i, description |-> <<"o">>, amount |-> 1,
                    date |-> <<2024, 1, 1>>]]]
    @@ ("tags" :> [i \in UserIds |->
                      [user_id |-> i, name |-> <<"t">>, color |-> "#3B82F6"]])
    @@ ("transaction_tags" :> {})

\* SELECT id FROM users WHERE email = %s
SelectByEmail(email) == {u \in DOMAIN users : users[u].email = email}

\* Faulty variant: the lookup without its expiry test
ConfirmMatches_NoExpiry(row, token, now) ==
    /\ row.reset_token # NULL
    /\ row.reset_token = token

ConfirmMatches(row, token, now) ==
    /\ row.reset_token # NULL
    /\ row.reset_token = token
    /\ row.reset_token_expires # NULL
    /\ row.reset_token_expires[2] > now

\* SELECT id, email FROM users
\* WHERE reset_token = %s AND reset_token_expires > CURRENT_TIMESTAMP
SelectByResetToken(token, now) ==
    {u \in DOMAIN users : ConfirmMatches(users[u], token, now)}

---------------------------------------------------------------------------
(* Responses *)

error_response(message, status_code) ==
    [statusCode |-> status_code, key |-> "error", text |-> message]

success_response(message) ==
    [statusCode |-> 200, key |-> "message", text |-> message]

NoResp == [statusCode |-> 0, key |-> "", text |-> ""]

MsgResetSent == "Reset email sent if account exists"
MsgInvalidToken == "Invalid or expired token"
MsgTooShort == "Password must be at least 6 characters"
MsgResetOk == "Password reset successful"

---------------------------------------------------------------------------
(* Handler invocations *)

NoPre == [live |-> FALSE, consumed |-> FALSE, expired |-> FALSE,
          superseded |-> FALSE]

Idle ==
    [mod |-> "", op |-> "idle", pc |-> "idle", email |-> <<>>,
     token |-> EmptyTok, password |-> "", uid |-> 0, id |-> 0,
     resp |-> NoResp, wrote |-> FALSE, pre |-> NoPre]

Done(r, response) == [r EXCEPT !.pc = "done", !.resp = response, !.id = 0]

StoreUnchanged == UNCHANGED <<users, issued, latest, consumed, records>>

\* A new invocation takes the first free worker slot (slots are
\* interchangeable).
FreeSlot(p) ==
    /\ last = Idle
    /\ req[p].pc = "idle"
    /\ \A q \in Procs : q < p => req[q].pc # "idle"

\* The invocation in slot p goes on as r, or ends with r's response and
\* frees the slot.
Place(p, r) ==
    IF r.pc = "done"
    THEN /\ last' = r
         /\ req' = [req EXCEPT ![p] = Idle]
    ELSE /\ req' = [req EXCEPT ![p] = r]
         /\ UNCHANGED last

(* ---- backend/auth: reset_password ---- *)

\* Faulty variant: an unknown email is answered 404
AuthResetSelect_RevealsUnknown(raw) ==
    LET email == NormalizeEmail(raw)
        found == SelectByEmail(email)
        r == [Idle EXCEPT !.mod = "auth", !.op = "reset_password",
                          !.email = raw]
    IN  IF email = <<>>
        THEN Done(r, error_response("Email is required", 400))
        ELSE IF found = {}
        THEN Done(r, error_response("User not found", 404))
        ELSE [r EXCEPT !.pc = "update", !.uid = CHOOSE u \in found : TRUE,
                       !.id = nreq + 1]

AuthResetSelect(raw) ==
    LET email == NormalizeEmail(raw)
        found == SelectByEmail(email)
        r == [Idle EXCEPT !.mod = "auth", !.op = "reset_password",
                          !.email = raw]
    IN  IF email = <<>>
        THEN Done(r, error_response("Email is required", 400))
        ELSE IF found = {}
        THEN Done(r, success_response(MsgResetSent))
        ELSE [r EXCEPT !.pc = "update", !.uid = CHOOSE u \in found : TRUE,
                       !.id = nreq + 1]

\* nreq counts the invocations that reach their random draw
Drawn(p) == nreq' = IF req'[p].pc = "update" THEN nreq + 1 ELSE nreq

AuthResetStart(p) ==
    /\ FreeSlot(p)
    /\ nreq < MaxReq
    /\ \E raw \in RawEmails :
          Place(p, AuthResetSelect(raw))
    /\ Drawn(p)
    /\ StoreUnchanged
    /\ UNCHANGED <<clock, nadv, jwt>>

\* Faulty variant: issuing a reset token also voids the password
ResetUpdateRow_VoidsPassword(row, reset_token, expires_at) ==
    [row EXCEPT !.reset_token = reset_token,
                !.reset_token_expires = Timestamp(expires_at),
                !.password_hash = Hashpw("", 0)]

\* Faulty variant: a pending reset token is not overwritten
ResetUpdateRow_KeepsPending(row, reset_token, expires_at) ==
    IF row.reset_token # NULL
    THEN row
    ELSE [row EXCEPT !.reset_token = reset_token,
                     !.reset_token_expires = Timestamp(expires_at)]

\* UPDATE users SET reset_token = %s, reset_token_expires = to_timestamp(%s)
\* WHERE id = %s
ResetUpdateRow(row, reset_token, expires_at) ==
    [row EXCEPT !.reset_token = reset_token,
                !.reset_token_expires = Timestamp(expires_at)]

\* send_reset_email(email, reset_token): raises when the EMAIL_* settings
\* are missing or the SMTP exchange fails
send_reset_email(delivers) == [ok |-> delivers, val |-> <<>>]

\* Faulty variant: a failed send is answered 500
ResetAfterSend_Surfaces(sent) ==
    IF sent.ok THEN success_response(MsgResetSent)
    ELSE error_response("Reset failed", 500)

\* try: send_reset_email(...) except Exception: print(...); then the
\* response, whatever the send did
ResetAfterSend(sent) == success_response(MsgResetSent)

AuthResetUpdate(p) ==
    LET r == req[p]
        reset_token == Tok(r.id)
        expires_at == ResetExpiry(clock)
    IN  /\ last = Idle
        /\ r.op = "reset_password"
        /\ r.mod = "auth"
        /\ r.pc = "update"
        /\ users' = [users EXCEPT
                        ![r.uid] = ResetUpdateRow(@, reset_token, expires_at)]
        /\ issued' = [issued EXCEPT
                        ![reset_token] = [uid |-> r.uid, at |-> clock,
                                          expires |-> expires_at]]
        /\ latest' = (r.uid :> reset_token) @@ latest
        /\ \E delivers \in BOOLEAN :
              LET sent == send_reset_email(delivers)
              IN  Place(p, [Done(r, ResetAfterSend(sent))
                               EXCEPT !.token = reset_token, !.wrote = TRUE,
                                      !.pre = [sent |-> sent.ok]])
        /\ UNCHANGED <<clock, nadv, nreq, consumed, jwt, records>>

(* ---- backend/auth: confirm_reset ---- *)

NoIssue == [uid |-> 0, at |-> 0, expires |-> 0]

PreOf(token) ==
    [live |-> SelectByResetToken(token, clock) # {},
     consumed |-> token \in ResetTokens /\ consumed[token] > 0,
     expired |-> /\ token \in ResetTokens
                 /\ issued[token] # NoIssue
                 /\ clock > issued[token].expires,
     superseded |-> /\ token \in ResetTokens
                    /\ issued[token] # NoIssue
                    /\ latest[issued[token].uid] # token]

AuthConfirmSelect(token, new_password) ==
    LET found == SelectByResetToken(token, clock)
        r == [Idle EXCEPT !.mod = "auth", !.op = "confirm_reset",
                          !.token = token, !.password = new_password,
                          !.pre = PreOf(token)]
    IN  IF token = EmptyTok \/ new_password = ""
        THEN Done(r, error_response("Token and new password are required", 400))
        ELSE IF Len(new_password) < MIN_PASSWORD
        THEN Done(r, error_response(MsgTooShort, 400))
        ELSE IF found = {}
        THEN Done(r, error_response(MsgInvalidToken, 400))
        ELSE [r EXCEPT !.pc = "update", !.uid = CHOOSE u \in found : TRUE,
                       !.id = nreq + 1]

\* Tokens a client can present: the empty string, a string of its own
\* making, or a token that was drawn and mailed (an undrawn token cannot be
\* guessed).
Presentable ==
    {EmptyTok, BogusTok} \cup {t \in ResetTokens : issued[t] # NoIssue}

AuthConfirmStart(p) ==
    /\ FreeSlot(p)
    /\ nreq < MaxReq
    /\ \E token \in Presentable, pw \in Passwords :
          Place(p, AuthConfirmSelect(token, pw))
    /\ Drawn(p)
    /\ StoreUnchanged
    /\ UNCHANGED <<clock, nadv, jwt>>

\* Faulty variant: the token is cleared, its expiry is left behind
ConfirmUpdateRow_KeepsExpiry(row, token, password_hash) ==
    [row EXCEPT !.password_hash = password_hash, !.reset_token = NULL]

\* Faulty variant: the consumed reset token is not cleared
ConfirmUpdateRow_KeepsToken(row, token, password_hash) ==
    [row EXCEPT !.password_hash = password_hash]

\* UPDATE users SET password_hash = %s, reset_token = NULL,
\*     reset_token_expires = NULL WHERE id = %s
ConfirmUpdateRow(row, token, password_hash) ==
    [row EXCEPT !.password_hash = password_hash,
                !.reset_token = NULL,
                !.reset_token_expires = NULL]

AuthConfirmUpdate(p) ==
    LET r == req[p]
        password_hash == Hashpw(r.password, r.id)
    IN  /\ last = Idle
        /\ r.op = "confirm_reset"
        /\ r.mod = "auth"
        /\ r.pc = "update"
        /\ users' = [users EXCEPT
                        ![r.uid] = ConfirmUpdateRow(@, r.token, password_hash)]
        /\ consumed' = [consumed EXCEPT ![r.token] = @ + 1]
        /\ Place(p, [Done(r, success_response(MsgResetOk))
                        EXCEPT !.wrote = TRUE])
        /\ UNCHANGED <<clock, nadv, nreq, issued, latest, jwt, records>>

(* ---- backend/auth: login ---- *)

AuthLoginResult(raw, password) ==
    LET email == NormalizeEmail(raw)
        found == SelectByEmail(email)
        r == [Idle EXCEPT !.mod = "auth", !.op = "login", !.email = raw,
                          !.password = password]
    IN  IF email = <<>> \/ password = ""
        THEN Done(r, error_response("Email and password are required", 400))
        ELSE IF found = {}
        THEN Done(r, error_response("Invalid credentials", 401))
        ELSE LET u == CHOOSE u \in found : TRUE
             IN  IF ~Checkpw(password, users[u].password_hash)
                 THEN Done(r, error_response("Invalid credentials", 401))
                 ELSE Done([r EXCEPT !.uid = u], success_response("token"))

AuthLogin(p) ==
    /\ FreeSlot(p)
    /\ \E raw \in {EmailA, EmailN}, pw \in {"", "secret1", "newpass1"} :
          Place(p, AuthLoginResult(raw, pw))
    /\ StoreUnchanged
    /\ UNCHANGED <<clock, nadv, nreq, jwt>>

(* ---- backend/user-auth: reset_password and confirm_reset ---- *)

UaResetResult(raw) ==
    LET email == NormalizeEmail(raw)
        r == [Idle EXCEPT !.mod = "user-auth", !.op = "reset_password",
                          !.email = raw]
    IN  IF email = <<>>
        THEN Done(r, error_response("Email required", 400))
        ELSE Done(r, success_response(MsgResetSent))

UaReset(p) ==
    /\ FreeSlot(p)
    /\ \E raw \in RawEmails : Place(p, UaResetResult(raw))
    /\ StoreUnchanged
    /\ UNCHANGED <<clock, nadv, nreq, jwt>>

UaConfirmResult(token, new_password) ==
    LET r == [Idle EXCEPT !.mod = "user-auth", !.op = "confirm_reset",
                          !.token = token, !.password = new_password,
                          !.pre = PreOf(token)]
    IN  Done(r, success_response(MsgResetOk))

UaConfirm(p) ==
    /\ FreeSlot(p)
    /\ \E token \in Presentable, pw \in {"abc", "newpass1"} :
          Place(p, UaConfirmResult(token, pw))
    /\ StoreUnchanged
    /\ UNCHANGED <<clock, nadv, nreq, jwt>>

(* ---- the response leaves; the clock advances ---- *)

\* return {'statusCode': ..., 'body': ...}: the response of the invocation
\* that ended is handed to the client. Responses are observed one at a time.
Respond ==
    /\ last # Idle
    /\ last' = Idle
    /\ StoreUnchanged
    /\ UNCHANGED <<clock, nadv, nreq, req, jwt>>

Advance ==
    /\ last = Idle
    /\ nadv < MaxAdvance
    /\ \E d \in Jumps : clock' = clock + d
    /\ nadv' = nadv + 1
    /\ StoreUnchanged
    /\ UNCHANGED <<nreq, req, last, jwt>>

---------------------------------------------------------------------------
(* TokenCodec: JSON, base64url and HMAC, length-faithful and            *)
(* content-symbolic. A dict is a sequence of <<key, value>> pairs in    *)
(* insertion order; a value is <<"int", n>> or <<"str", s>>; a byte     *)
(* string is [kind, body, n] with n its length in bytes.                *)

IntVal(n) == <<"int", n>>
StrVal(x) == <<"str", x>>

RECURSIVE DictHas(_, _)
DictHas(d, k) ==
    IF d = <<>> THEN FALSE
    ELSE IF Head(d)[1] = k THEN TRUE ELSE DictHas(Tail(d), k)

\* dict.get(k, default)
RECURSIVE DictGet(_, _, _)
DictGet(d, k, default) ==
    IF d = <<>> THEN default
    ELSE IF Head(d)[1] = k THEN Head(d)[2] ELSE DictGet(Tail(d), k, default)

\* d[k] = v: replaces the value in place, or appends the key
DictSet(d, k, v) ==
    IF DictHas(d, k)
    THEN [i \in 1 .. Len(d) |-> IF d[i][1] = k THEN <<k, v>> ELSE d[i]]
    ELSE Append(d, <<k, v>>)

RECURSIVE Digits(_)
Digits(n) == IF n < 10 THEN 1 ELSE 1 + Digits(n \div 10)

\* length of the JSON text of a value
JsonValueLen(v) == IF v[1] = "int" THEN Digits(v[2]) ELSE Len(v[2]) + 2

RECURSIVE JsonMembersLen(_)
JsonMembersLen(d) ==
    IF d = <<>> THEN 0
    ELSE (Len(Head(d)[1]) + 2) + 2 + JsonValueLen(Head(d)[2])
         + (IF Tail(d) = <<>> THEN 0 ELSE 2 + JsonMembersLen(Tail(d)))

\* json.dumps(d).encode(): '{"k": v, "k2": v2}'
JsonDumps(d) == [kind |-> "json", body |-> d, n |-> 2 + JsonMembersLen(d)]

RECURSIVE DictOf(_, _)
DictOf(members, acc) ==
    IF members = <<>> THEN acc
    ELSE DictOf(Tail(members), DictSet(acc, Head(members)[1], Head(members)[2]))

Raised == [ok |-> FALSE, val |-> <<>>]
Ok(v) == [ok |-> TRUE, val |-> v]

\* json.loads(bytes.decode()): raises on anything but JSON text
JsonLoads(bytes) ==
    IF bytes.kind = "json" THEN Ok(DictOf(bytes.body, <<>>)) ELSE Raised

\* base64.urlsafe_b64encode(bytes).decode(): data characters and '=' padding
B64Encode(bytes) ==
    [of |-> bytes,
     data |-> (4 * bytes.n + 2) \div 3,
     pad |-> (3 - (bytes.n % 3)) % 3]

\* .rstrip('=')
RStripPad(seg) == [seg EXCEPT !.pad = 0]

\* Faulty variant: the stripped padding is not restored
RestorePadding_None(seg) == seg

\* seg += '=' * (4 - len(seg) % 4)
RestorePadding(seg) ==
    [seg EXCEPT !.pad = @ + (4 - ((seg.data + seg.pad) % 4))]

\* base64.urlsafe_b64decode(seg): raises when the data characters are one
\* more than a multiple of 4 or the padding is short; extra '=' is ignored
B64Decode(seg) ==
    IF seg.data % 4 = 1 THEN Raised
    ELSE IF seg.pad < (4 - (seg.data % 4)) % 4 THEN Raised
    ELSE Ok(seg.of)

\* os.environ.get('JWT_SECRET', 'default-secret')
Secrets == {"default-secret", "configured-secret"}

\* hmac.new(key, message, hashlib.sha256).digest(): 32 bytes
Hmac(key, message) == [kind |-> "mac", body |-> <<key, message>>, n |-> 32]

\* Faulty variant: only the digests' lengths are compared
CompareDigest_LengthOnly(a, b) == a.n = b.n

\* hmac.compare_digest(a, b)
CompareDigest(a, b) == a.kind = b.kind /\ a.n = b.n /\ a.body = b.body

\* header = {'typ': 'JWT', 'alg': 'HS256'}
Header == << <<"typ", StrVal("JWT")>>, <<"alg", StrVal("HS256")>> >>

\* f'{header_b64}.{payload_b64}'
Message(header_b64, payload_b64) == <<header_b64, payload_b64>>

\* the encoding and signing half of create_jwt_token; a token is the
\* sequence of its '.'-separated segments
EncodeToken(payload, key) ==
    LET header_b64 == RStripPad(B64Encode(JsonDumps(Header)))
        payload_b64 == RStripPad(B64Encode(JsonDumps(payload)))
        signature == Hmac(key, Message(header_b64, payload_b64))
        signature_b64 == RStripPad(B64Encode(signature))
    IN  <<header_b64, payload_b64, signature_b64>>

\* int(time.time())
UnixTime(now) == now \div TicksPerSec

\* Faulty variant: exp is not looked at
Expired_Never(payload, now) == FALSE

\* payload.get('exp', 0) < time.time(); a non-numeric exp raises
Expired(payload, now) ==
    LET exp == DictGet(payload, "exp", IntVal(0))
    IN  IF exp[1] # "int" THEN TRUE ELSE exp[2] * TicksPerSec < now

None == [ok |-> FALSE, val |-> <<>>]

verify_jwt_token(token, key, now) ==
    IF Len(token) # 3 THEN None
    ELSE
      LET header_b64 == token[1]
          payload_b64 == token[2]
          signature_b64 == token[3]
          expected_signature == Hmac(key, Message(header_b64, payload_b64))
          actual_signature == B64Decode(RestorePadding(signature_b64))
      IN  IF ~actual_signature.ok THEN None
          ELSE IF ~CompareDigest(expected_signature, actual_signature.val)
          THEN None
          ELSE
            LET bytes == B64Decode(RestorePadding(payload_b64))
                payload == IF bytes.ok THEN JsonLoads(bytes.val) ELSE Raised
            IN  IF ~payload.ok THEN None
                ELSE IF Expired(payload.val, now) THEN None
                ELSE Ok(payload.val)

---------------------------------------------------------------------------
(* The other validators: the Bearer path of backend/transactions, which  *)
(* calls verify_jwt_token of backend/auth, and the cookie path of        *)
(* backend/goals, which carries its own copy of the steps (the copy in   *)
(* backend/calendar is the same text). Each returns the user id, or None. *)

\* Faulty variant: only the first cookie is looked at
extract_token_FirstOnly(cookie_header) ==
    IF cookie_header # <<>> /\ Head(cookie_header)[1] = "auth_token"
    THEN Ok(Head(cookie_header)[2])
    ELSE None

\* extract_token_from_cookies(cookie_header): the header is the sequence
\* of its ';'-separated cookies, each <<name, value>>; the value of the
\* first one named auth_token, or None
RECURSIVE extract_token_from_cookies(_)
extract_token_from_cookies(cookie_header) ==
    IF cookie_header = <<>> THEN None
    ELSE IF Head(cookie_header)[1] = "auth_token"
    THEN Ok(Head(cookie_header)[2])
    ELSE extract_token_from_cookies(Tail(cookie_header))

\* transactions handler: the Authorization header is <<scheme, token>>;
\* user_data['user_id'] raises KeyError when the payload has no user_id
BearerUserId(auth_header, key, now) ==
    IF auth_header = <<>> \/ auth_header[1] # "Bearer" THEN None
    ELSE LET user_data == verify_jwt_token(auth_header[2], key, now)
         IN  IF ~user_data.ok \/ user_data.val = <<>> THEN None
             ELSE IF ~DictHas(user_data.val, "user_id") THEN Raised
             ELSE Ok(DictGet(user_data.val, "user_id", IntVal(0)))

\* Faulty variant: the copy forgets the expiry test
extract_user_id_NoExpiry(cookie_header, key, now) ==
    LET token == extract_token_from_cookies(cookie_header)
    IN  IF ~token.ok \/ Len(token.val) # 3 THEN None
        ELSE
          LET parts == token.val
              actual_signature == B64Decode(RestorePadding(parts[3]))
              bytes == B64Decode(RestorePadding(parts[2]))
              payload == IF bytes.ok THEN JsonLoads(bytes.val) ELSE Raised
          IN  IF ~actual_signature.ok \/ ~payload.ok THEN None
              ELSE IF ~CompareDigest(Hmac(key, Message(parts[1], parts[2])),
                                     actual_signature.val)
              THEN None
              ELSE IF DictHas(payload.val, "user_id")
              THEN Ok(DictGet(payload.val, "user_id", IntVal(0)))
              ELSE None

\* goals: extract_user_id_from_cookies(event)
extract_user_id_from_cookies(cookie_header, key, now) ==
    LET token == extract_token_from_cookies(cookie_header)
    IN  IF cookie_header = <<>> THEN None
        ELSE IF ~token.ok \/ token.val = EmptyTok THEN None
        ELSE IF Len(token.val) # 3 THEN None
        ELSE
          LET header_b64 == token.val[1]
              payload_b64 == token.val[2]
              signature_b64 == token.val[3]
              expected_signature == Hmac(key, Message(header_b64, payload_b64))
              actual_signature == B64Decode(RestorePadding(signature_b64))
          IN  IF ~actual_signature.ok THEN None
              ELSE IF ~CompareDigest(expected_signature, actual_signature.val)
              THEN None
              ELSE
                LET bytes == B64Decode(RestorePadding(payload_b64))
                    payload == IF bytes.ok THEN JsonLoads(bytes.val) ELSE Raised
                    exp == DictGet(payload.val, "exp", IntVal(0))
                IN  IF ~payload.ok THEN None
                    ELSE IF exp[1] # "int" THEN None
                    ELSE IF exp[2] * TicksPerSec < now THEN None
                    ELSE IF DictHas(payload.val, "user_id")
                    THEN Ok(DictGet(payload.val, "user_id", IntVal(0)))
                    ELSE None

---------------------------------------------------------------------------
(* The token codec machine *)

\* the claim sets handle_register and handle_login pass
ClaimSets ==
    { << <<"user_id", IntVal(1)>>, <<"email", StrVal("a@x.com")>> >>,
      << <<"user_id", IntVal(2)>>, <<"email", StrVal("bb@x.com")>> >>,
      << <<"user_id", IntVal(10)>>, <<"email", StrVal("bb@x.com")>> >> }

NoToken == <<>>
NoOut == [called |-> FALSE, made |-> "", token |-> NoToken, payload |-> <<>>,
          signed |-> "", over |-> <<>>, key |-> "", now |-> 0, res |-> None,
          bearer |-> None, cookie |-> None]

\* History kept with the token created last: by names the handler that
\* created it, logout tells whether a logout was answered since, and resets
\* is the consumed count of every reset token when it was created.
JwtIdle ==
    [pc |-> "idle", key |-> "", claims |-> <<>>, payload |-> <<>>,
     began |-> 0, token |-> NoToken, issued_at |-> 0, out |-> NoOut,
     by |-> "", logout |-> FALSE, resets |-> [t \in ResetTokens |-> 0]]

StoreIdle ==
    UNCHANGED <<users, nreq, req, issued, latest, consumed, last, records>>

\* payload['exp'] = int(time.time()) + 7 * 24 * 3600
CreateReadExp ==
    /\ jwt.pc = "idle"
    /\ \E c \in ClaimSets, k \in Secrets :
          jwt' = [jwt EXCEPT
                    !.pc = "iat", !.key = k, !.claims = c,
                    !.payload = DictSet(c, "exp", IntVal(UnixTime(clock) + JWT_TTL)),
                    !.began = clock, !.token = NoToken, !.out = NoOut]
    /\ StoreIdle
    /\ UNCHANGED <<clock, nadv>>

\* payload['iat'] = int(time.time()), then the token is encoded and signed
CreateReadIat ==
    /\ jwt.pc = "iat"
    /\ LET payload == DictSet(jwt.payload, "iat", IntVal(UnixTime(clock)))
       IN  jwt' = [jwt EXCEPT
                     !.pc = "idle", !.payload = payload,
                     !.token = EncodeToken(payload, jwt.key),
                     !.issued_at = clock]
    /\ StoreIdle
    /\ UNCHANGED <<clock, nadv>>

\* payloads of correctly signed tokens that create_jwt_token does not make
CraftedPayloads(now) ==
    LET c == << <<"user_id", IntVal(1)>> >>
    IN  {c, DictSet(c, "exp", StrVal("never")),
         << <<"exp", IntVal(UnixTime(now) + 1)>> >>}
        \cup {DictSet(c, "exp", IntVal(UnixTime(now) + d)) : d \in {0, 1}}

\* verify_jwt_token(token) under the secret key, at the current time. History:
\* payload is what the second segment was encoded from, signed the secret
\* and over the message the third segment was computed from (if any).
Received(made, token, payload, signed, over, key) ==
    [called |-> TRUE, made |-> made, token |-> token, payload |-> payload,
     signed |-> signed, over |-> over, key |-> key, now |-> clock,
     res |-> verify_jwt_token(token, key, clock),
     bearer |-> BearerUserId(<<"Bearer", token>>, key, clock),
     cookie |-> extract_user_id_from_cookies(
                    << <<"lang", "ru">>, <<"auth_token", token>> >>, key, clock)]

Verified(made, payload, signed, key) ==
    LET token == EncodeToken(payload, signed)
    IN  Received(made, token, payload, signed, Message(token[1], token[2]), key)

\* verify_jwt_token applied to the token create_jwt_token returned
VerifyIssued ==
    /\ jwt.pc = "idle"
    /\ jwt.token # NoToken
    /\ \E k \in Secrets :
          jwt' = [jwt EXCEPT
                    !.out = Verified("create_jwt_token", jwt.payload, jwt.key, k)]
    /\ StoreIdle
    /\ UNCHANGED <<clock, nadv>>

\* verify_jwt_token applied to a token signed over some other payload
VerifyCrafted ==
    /\ jwt.pc = "idle"
    /\ \E p \in CraftedPayloads(clock), ks \in Secrets, k \in Secrets :
          jwt' = [jwt EXCEPT !.out = Verified("crafted", p, ks, k)]
    /\ StoreIdle
    /\ UNCHANGED <<clock, nadv>>

\* headers a client may put in the first segment
Headers == {Header, DictSet(Header, "alg", StrVal("none"))}

\* a segment as create_jwt_token encodes it
Segment(bytes) == RStripPad(B64Encode(bytes))

NoBytes == [kind |-> "text", body |-> <<>>, n |-> 0]

\* The third segment of a token a client assembles from the issued one: the
\* issued signature kept, no signature, or an HMAC under the secret how over
\* the two segments presented.
ForgedSignature(how, header_b64, payload_b64) ==
    CASE how = "kept" ->
           [seg |-> jwt.token[3], signed |-> jwt.key,
            over |-> Message(jwt.token[1], jwt.token[2])]
      [] how = "none" ->
           [seg |-> Segment(NoBytes), signed |-> "", over |-> <<>>]
      [] OTHER ->
           [seg |-> Segment(Hmac(how, Message(header_b64, payload_b64))),
            signed |-> how, over |-> Message(header_b64, payload_b64)]

\* verify_jwt_token applied to a token assembled from the issued one, with
\* the header or the payload replaced
VerifyForged ==
    /\ jwt.pc = "idle"
    /\ jwt.token # NoToken
    /\ \E hd \in Headers,
          pl \in {jwt.payload, DictSet(jwt.payload, "user_id", IntVal(7))},
          how \in {"kept", "none"} \cup Secrets, k \in Secrets :
          LET h == Segment(JsonDumps(hd))
              p == Segment(JsonDumps(pl))
              s == ForgedSignature(how, h, p)
          IN  jwt' = [jwt EXCEPT
                        !.out = Received("forged", <<h, p, s.seg>>, pl,
                                         s.signed, s.over, k)]
    /\ StoreIdle
    /\ UNCHANGED <<clock, nadv>>

JwtJumps == {1, JWT_TTL * TicksPerSec - 1}

\* The clock moves on; within one create_jwt_token call only by a tick.
JwtAdvance ==
    /\ nadv < MaxAdvance
    /\ \E d \in (IF jwt.pc = "iat" THEN {1} ELSE JwtJumps) : clock' = clock + d
    /\ nadv' = nadv + 1
    /\ jwt' = [jwt EXCEPT !.out = NoOut]
    /\ StoreIdle

---------------------------------------------------------------------------
(* Accounts and sessions: register, login, session check (GET) and      *)
(* logout (DELETE) of backend/auth and backend/user-auth. mod names the  *)
(* module, "auth" or "user-auth". The signing secret is jwt.key, fixed   *)
(* for the life of the process; jwt holds the token created last.        *)

Modules == {"auth", "user-auth"}

\* the Set-Cookie header value, attribute by attribute
SetCookie(value, secure, max_age) ==
    [name |-> "auth_token", value |-> value, path |-> "/", http_only |-> TRUE,
     secure |-> secure, same_site |-> "Lax", max_age |-> max_age]

\* a response without a Set-Cookie header
NoCookie ==
    [name |-> "", value |-> NoToken, path |-> "", http_only |-> FALSE,
     secure |-> FALSE, same_site |-> "", max_age |-> 0]

\* success_response(data) of either module: status 200, no Set-Cookie
success_response_data(data) ==
    [statusCode |-> 200, key |-> "data", text |-> "", data |-> data,
     set_cookie |-> NoCookie]

\* user-auth: success_response_with_cookie(data, token, cors_headers)
success_response_with_cookie(data, token) ==
    [statusCode |-> 200, key |-> "data", text |-> "", data |-> data,
     set_cookie |-> SetCookie(token, FALSE, 7 * 24 * 3600)]

\* What handle_register and handle_login return on success: auth puts the
\* token in the body, user-auth in the cookie.
Authenticated(mod, token, user) ==
    IF mod = "auth"
    THEN success_response_data([token |-> token, user |-> user])
    ELSE success_response_with_cookie([user |-> user], token)

MsgRequired(mod) ==
    IF mod = "auth" THEN "Email and password are required"
    ELSE "Email and password required"

\* create_jwt_token({'user_id': ..., 'email': ...}) as the handlers call it,
\* both clock reads falling in the present tick: the new value of jwt
Issue(by, user) ==
    LET claims == << <<"user_id", IntVal(user.id)>>,
                     <<"email", StrVal(user.email)>> >>
        payload == DictSet(DictSet(claims, "exp",
                                   IntVal(UnixTime(clock) + JWT_TTL)),
                           "iat", IntVal(UnixTime(clock)))
    IN  [jwt EXCEPT !.claims = claims, !.payload = payload, !.began = clock,
                    !.issued_at = clock, !.out = NoOut,
                    !.token = EncodeToken(payload, jwt.key),
                    !.by = by, !.logout = FALSE, !.resets = consumed]

(* ---- handle_register ---- *)

\* Faulty variant: the length of the password is not tested
RegisterSelect_AnyLength(mod, raw, password) ==
    LET email == NormalizeEmail(raw)
        r == [Idle EXCEPT !.mod = mod, !.op = "register", !.email = raw,
                          !.password = password]
    IN  IF email = <<>> \/ password = ""
        THEN Done(r, error_response(MsgRequired(mod), 400))
        ELSE IF SelectByEmail(email) # {}
        THEN Done(r, error_response("User already exists", 409))
        ELSE [r EXCEPT !.pc = "update", !.id = nreq + 1]

\* validation and the SELECT by email
RegisterSelect(mod, raw, password) ==
    LET email == NormalizeEmail(raw)
        r == [Idle EXCEPT !.mod = mod, !.op = "register", !.email = raw,
                          !.password = password]
    IN  IF email = <<>> \/ password = ""
        THEN Done(r, error_response(MsgRequired(mod), 400))
        ELSE IF Len(password) < MIN_PASSWORD
        THEN Done(r, error_response(MsgTooShort, 400))
        ELSE IF SelectByEmail(email) # {}
        THEN Done(r, error_response("User already exists", 409))
        ELSE [r EXCEPT !.pc = "update", !.id = nreq + 1]

\* Request bodies: an unregistered email in two spellings or a registered
\* one, and passwords on both sides of the minimum length.
RegisterStart(p, mod) ==
    /\ FreeSlot(p)
    /\ nreq < MaxReq
    /\ \E raw \in {EmailN, <<" ", "N", "@", "x">>, EmailA},
          pw \in {"", "abc", "newpass1"} :
          Place(p, RegisterSelect(mod, raw, pw))
    /\ Drawn(p)
    /\ StoreUnchanged
    /\ UNCHANGED <<clock, nadv, jwt>>

\* users.email is unique: an INSERT of an email that has a row raises
EmailIsUnique(email) == SelectByEmail(email) = {}

\* bcrypt.hashpw, INSERT INTO users ... RETURNING, commit, create_jwt_token;
\* an exception rolls back and is answered 500
RegisterInsert(p) ==
    LET r == req[p]
        email == NormalizeEmail(r.email)
        id == Cardinality(DOMAIN users) + 1
        row == [email |-> email, password_hash |-> Hashpw(r.password, r.id),
                reset_token |-> NULL, reset_token_expires |-> NULL]
        user == [id |-> id, email |-> email]
        made == Issue("register", user)
    IN  /\ last = Idle
        /\ r.op = "register"
        /\ r.pc = "update"
        /\ IF EmailIsUnique(email)
           THEN /\ users' = (id :> row) @@ users
                /\ jwt' = made
                /\ Place(p, [Done(r, Authenticated(r.mod, made.token, user))
                                EXCEPT !.uid = id, !.wrote = TRUE])
           ELSE /\ UNCHANGED <<users, jwt>>
                /\ Place(p, Done(r, error_response("Registration failed", 500)))
        /\ UNCHANGED <<clock, nadv, nreq, issued, latest, consumed, records>>

(* ---- handle_login ---- *)

LoginResult(mod, raw, password) ==
    LET email == NormalizeEmail(raw)
        found == SelectByEmail(email)
        r == [Idle EXCEPT !.mod = mod, !.op = "login", !.email = raw,
                          !.password = password]
    IN  IF email = <<>> \/ password = ""
        THEN Done(r, error_response(MsgRequired(mod), 400))
        ELSE IF found = {}
        THEN Done(r, error_response("Invalid credentials", 401))
        ELSE LET u == CHOOSE u \in found : TRUE
                 user == [id |-> u, email |-> users[u].email]
             IN  IF ~Checkpw(password, users[u].password_hash)
                 THEN Done(r, error_response("Invalid credentials", 401))
                 ELSE Done([r EXCEPT !.uid = u],
                           Authenticated(mod, Issue("login", user).token, user))

Login(p, mod) ==
    /\ FreeSlot(p)
    /\ \E raw \in {EmailA, EmailN}, pw \in {"", "secret1", "newpass1"} :
          LET r == LoginResult(mod, raw, pw)
          IN  /\ Place(p, r)
              /\ jwt' = IF r.resp.statusCode = 200
                        THEN Issue("login", [id |-> r.uid,
                                             email |-> users[r.uid].email])
                        ELSE jwt
    /\ StoreUnchanged
    /\ UNCHANGED <<clock, nadv, nreq>>

(* ---- GET: the session check ---- *)

\* Faulty variant: a logout revokes the token created last
SessionUser_UntilLogout(cookie_header) ==
    LET token == extract_token_from_cookies(cookie_header)
    IN  IF token.ok /\ token.val # EmptyTok /\ ~jwt.logout
        THEN verify_jwt_token(token.val, jwt.key, clock)
        ELSE None

\* token = extract_token_from_cookies(cookies); if token:
\* user_data = verify_jwt_token(token); if user_data: the payload
SessionUser(cookie_header) ==
    LET token == extract_token_from_cookies(cookie_header)
    IN  IF token.ok /\ token.val # EmptyTok
        THEN verify_jwt_token(token.val, jwt.key, clock)
        ELSE None

\* Faulty variant: an expired token is answered with its own message
SessionRefusal_TellsExpiry(why) ==
    IF why = "expired" THEN error_response("Token expired", 401)
    ELSE error_response("Invalid token", 401)

\* return error_response('Invalid token', 401)
SessionRefusal(why) == error_response("Invalid token", 401)

\* The GET branch of handler: SELECT ... FROM users WHERE id = user_id; a
\* payload without user_id raises KeyError, answered 500.
SessionCheckResult(mod, why, cookie_header) ==
    LET user_data == SessionUser(cookie_header)
        r == [Idle EXCEPT !.mod = mod, !.op = "session",
                          !.pre = [why |-> why, logout |-> jwt.logout,
                                   resets |-> jwt.resets, at |-> clock]]
    IN  IF ~user_data.ok \/ user_data.val = <<>>
        THEN Done(r, SessionRefusal(why))
        ELSE IF ~DictHas(user_data.val, "user_id")
        THEN Done(r, error_response("Server error", 500))
        ELSE LET u == DictGet(user_data.val, "user_id", IntVal(0))[2]
             IN  IF u \notin DOMAIN users
                 THEN Done(r, SessionRefusal(why))
                 ELSE Done([r EXCEPT !.uid = u],
                           success_response_data(
                               [user |-> [id |-> u, email |-> users[u].email],
                                valid |-> TRUE]))

\* Cookie headers a client sends, each with the way its token was made:
\* the token created last, whole or damaged, and tokens signed under the
\* server secret over payloads create_jwt_token does not make.
SessionCookies ==
    LET T == jwt.token
        c == << <<"user_id", IntVal(1)>> >>
        h == Segment(JsonDumps(Header))
        junk == Segment([kind |-> "text", body |-> <<"x">>, n |-> 1])
        send(why, token) ==
            [why |-> why, header |-> << <<"lang", "ru">>, <<"auth_token", token>> >>]
    IN  {[why |-> "no cookie", header |-> <<>>],
         [why |-> "other cookie", header |-> << <<"lang", "ru">> >>],
         send("empty", EmptyTok),
         send("no exp", EncodeToken(c, jwt.key)),
         send("expired",
              EncodeToken(DictSet(c, "exp", IntVal(UnixTime(clock) - 1)), jwt.key)),
         send("not json", <<h, junk, Segment(Hmac(jwt.key, Message(h, junk)))>>),
         send("no user_id",
              EncodeToken(<< <<"exp", IntVal(UnixTime(clock) + 1)>> >>, jwt.key)),
         send("no such user",
              EncodeToken(DictSet(<< <<"user_id", IntVal(99)>> >>, "exp",
                                  IntVal(UnixTime(clock) + 1)), jwt.key))}
        \cup (IF T = NoToken THEN {}
              ELSE {send("issued", T),
                    send("two segments", SubSeq(T, 1, 2)),
                    send("four segments", Append(T, T[3])),
                    send("undecodable", <<T[1], T[2], [T[3] EXCEPT !.data = @ + 2]>>),
                    send("mismatch", <<T[1], Segment(JsonDumps(c)), T[3]>>)})

SessionCheck(p, mod) ==
    /\ FreeSlot(p)
    /\ \E c \in SessionCookies :
          Place(p, SessionCheckResult(mod, c.why, c.header))
    /\ StoreUnchanged
    /\ UNCHANGED <<clock, nadv, nreq, jwt>>

(* ---- DELETE: logout ---- *)

\* the cookie is cleared; auth sets Secure, user-auth does not
LogoutResult(mod) ==
    Done([Idle EXCEPT !.mod = mod, !.op = "logout"],
         [statusCode |-> 200, key |-> "message",
          text |-> "Logged out successfully",
          set_cookie |-> SetCookie(EmptyTok, mod = "auth", 0)])

Logout(p, mod) ==
    /\ FreeSlot(p)
    /\ Place(p, LogoutResult(mod))
    /\ jwt' = [jwt EXCEPT !.logout = (jwt.token # NoToken)]
    /\ StoreUnchanged
    /\ UNCHANGED <<clock, nadv, nreq>>

(* ---- the clock; the specification ---- *)

\* The clock moves on to the last tick before the exp of a token created
\* now; from there, past that exp.
SessionAdvance ==
    /\ last = Idle
    /\ nadv < MaxAdvance
    /\ clock' = clock + (JWT_TTL * TicksPerSec - 1)
    /\ nadv' = nadv + 1
    /\ StoreUnchanged
    /\ UNCHANGED <<nreq, req, last, jwt>>

\* The store holds two users; the first has asked for a password reset
\* and holds the reset token drawn first. JWT_SECRET is not set.
InitSession ==
    /\ clock = StartSec * TicksPerSec
    /\ users = [InitUsers EXCEPT
                  ![1] = ResetUpdateRow(@, Tok(1), ResetExpiry(clock))]
    /\ nadv = 0
    /\ nreq = 1
    /\ req = [p \in Procs |-> Idle]
    /\ issued = [t \in ResetTokens |->
                   IF t = Tok(1)
                   THEN [uid |-> 1, at |-> clock, expires |-> ResetExpiry(clock)]
                   ELSE NoIssue]
    /\ latest = [u \in UserIds |-> IF u = 1 THEN Tok(1) ELSE NULL]
    /\ consumed = [t \in ResetTokens |-> 0]
    /\ last = Idle
    /\ jwt = [JwtIdle EXCEPT !.key = "default-secret"]
    /\ records = InitRecords

NextSession ==
    \/ \E p \in Procs, mod \in Modules : RegisterStart(p, mod)
    \/ \E p \in Procs : RegisterInsert(p)
    \/ \E p \in Procs, mod \in Modules : Login(p, mod)
    \/ \E p \in Procs, mod \in Modules : SessionCheck(p, mod)
    \/ \E p \in Procs, mod \in Modules : Logout(p, mod)
    \/ \E p \in Procs : AuthConfirmStart(p)
    \/ \E p \in Procs : AuthConfirmUpdate(p)
    \/ Respond
    \/ SessionAdvance

SpecSession == InitSession /\ [][NextSession]_vars

\* every operation of the two auth modules, at one time of day
NextAuth ==
    \/ \E p \in Procs, mod \in Modules : RegisterStart(p, mod)
    \/ \E p \in Procs : RegisterInsert(p)
    \/ \E p \in Procs, mod \in Modules : Login(p, mod)
    \/ \E p \in Procs, mod \in Modules : SessionCheck(p, mod)
    \/ \E p \in Procs, mod \in Modules : Logout(p, mod)
    \/ \E p \in Procs : AuthResetStart(p)
    \/ \E p \in Procs : AuthResetUpdate(p)
    \/ \E p \in Procs : AuthConfirmStart(p)
    \/ \E p \in Procs : AuthConfirmUpdate(p)
    \/ \E p \in Procs : UaReset(p)
    \/ \E p \in Procs : UaConfirm(p)
    \/ Respond

SpecAuth == InitSession /\ [][NextAuth]_vars

---------------------------------------------------------------------------
(* Goals, calendar events and transactions                               *)
(*                                                                       *)
(* A request reaches update_goal / update_event / update_transaction or  *)
(* delete_goal / delete_event / delete_transaction through the handler   *)
(* of its module, which authenticates it first. A record id of 0 stands  *)
(* for a request that carries no id.                                     *)

NotFound(table) ==
    CASE table = "goals" -> "Goal not found"
      [] table = "calendar_events" -> "Event not found"
      [] OTHER -> "Transaction not found"

IdRequired(table) ==
    CASE table = "goals" -> "Goal ID is required"
      [] table = "calendar_events" -> "Event ID is required"
      [] OTHER -> "Transaction ID required"

UpdateFailed(table) ==
    CASE table = "goals" -> "Failed to update goal"
      [] table = "calendar_events" -> "Failed to update event"
      [] OTHER -> "Failed to update transaction"

\* The credential of user who, valid at the present time, as the module
\* takes it: a cookie in goals and calendar, a Bearer header in
\* transactions; who = 0 sends none. The result is the handler's user_id.
RecordsAuth(table, who) ==
    LET token == EncodeToken(<< <<"user_id", IntVal(who)>>,
                                <<"exp", IntVal(UnixTime(clock) + 1)>> >>,
                             jwt.key)
    IN  IF table = "transactions"
        THEN BearerUserId(IF who = 0 THEN <<>> ELSE <<"Bearer", token>>,
                          jwt.key, clock)
        ELSE extract_user_id_from_cookies(
                 IF who = 0 THEN <<>> ELSE << <<"auth_token", token>> >>,
                 jwt.key, clock)

\* if not user_id: ... 401 (goals, calendar); transactions answers a
\* request without a Bearer header
Unauthorized(table) ==
    IF table = "transactions"
    THEN error_response("Authorization required", 401)
    ELSE error_response("Authentication required", 401)

\* Faulty variant: the owner of the row is not compared
Owned_AnyUser(table, id, user_id) == id \in DOMAIN records[table]

\* ... WHERE id = %s AND user_id = %s matches a row
Owned(table, id, user_id) ==
    /\ id \in DOMAIN records[table]
    /\ records[table][id].user_id = user_id

\* the bodies of the PUT requests a client sends to a module
Updates(table) ==
    CASE table = "goals" ->
           {<<>>, << <<"title", StrVal(<<" ", "n">>)>> >>,
            << <<"target_amount", IntVal(0)>> >>}
      [] table = "calendar_events" ->
           {<<>>, << <<"title", StrVal(<<" ", "n">>)>> >>}
      [] OTHER ->
           {<<>>, << <<"description", StrVal(<<" ", "n">>)>> >>,
            << <<"amount", IntVal(0)>> >>}

\* a number no integer column of the store can hold
BigId == <<"big", 0>>

\* float(amount), int(tag_id): a number stays that number, a string of
\* decimal digits is read as a number, any other string raises ValueError
ToNumber(v) ==
    LET DigitOf == [c \in {"0", "1", "2", "3", "4", "5", "6", "7", "8", "9"} |->
                      CASE c = "0" -> 0 [] c = "1" -> 1 [] c = "2" -> 2
                        [] c = "3" -> 3 [] c = "4" -> 4 [] c = "5" -> 5
                        [] c = "6" -> 6 [] c = "7" -> 7 [] c = "8" -> 8
                        [] OTHER -> 9]
        s == v[2]
        val[i \in 0 .. Len(s)] ==
            IF i = 0 THEN 0 ELSE 10 * val[i - 1] + DigitOf[s[i]]
    IN  IF v[1] # "str" THEN Ok(v)
        ELSE IF s = <<>> \/ \E i \in DOMAIN s : s[i] \notin DOMAIN DigitOf
        THEN Raised
        ELSE Ok(IntVal(val[Len(s)]))

\* datetime.strptime(date_str, '%Y-%m-%d').date(): a date string is the
\* sequence of its numbers and separators; anything but year-month-day
\* with a month of the year and a day of that month raises ValueError
ParseDate(date_str) ==
    LET y == date_str[1]
        m == date_str[3]
        d == date_str[5]
        leap == (y % 4 = 0 /\ y % 100 # 0) \/ y % 400 = 0
        days == CASE m = 2 -> IF leap THEN 29 ELSE 28
                  [] m \in {4, 6, 9, 11} -> 30
                  [] OTHER -> 31
    IN  IF Len(date_str) # 5 \/ date_str[2] # "-" \/ date_str[4] # "-"
        THEN Raised
        ELSE IF y \notin 1 .. 9999 \/ m \notin 1 .. 12 \/ d \notin 1 .. days
        THEN Raised
        ELSE Ok(<<y, m, d>>)

\* update_fields and params: the columns the UPDATE statement sets.
\* goals and calendar strip the title; transactions converts amount and
\* date, and a failed conversion has no columns.
UpdateFields(table, data) ==
    CASE table = "goals" ->
           (IF DictHas(data, "title")
            THEN "title" :> Strip(DictGet(data, "title", StrVal(<<>>))[2])
            ELSE <<>>)
           @@ (IF DictHas(data, "target_amount")
               THEN "target_amount"
                        :> DictGet(data, "target_amount", IntVal(0))[2]
               ELSE <<>>)
      [] table = "calendar_events" ->
           IF DictHas(data, "title")
           THEN "title" :> Strip(DictGet(data, "title", StrVal(<<>>))[2])
           ELSE <<>>
      [] OTHER ->
           (IF DictHas(data, "amount")
            THEN "amount" :> ToNumber(DictGet(data, "amount", IntVal(0))).val[2]
            ELSE <<>>)
           @@ (IF DictHas(data, "description")
               THEN "description"
                        :> DictGet(data, "description", StrVal(<<>>))[2]
               ELSE <<>>)
           @@ (IF DictHas(data, "date")
               THEN "date" :> ParseDate(DictGet(data, "date", <<>>)).val
               ELSE <<>>)

\* UPDATE ... SET: the row with the columns of fields replaced
SetFields(row, fields) ==
    [c \in DOMAIN row |-> IF c \in DOMAIN fields THEN fields[c] ELSE row[c]]

\* The loop INSERT INTO transaction_tags (transaction_id, tag_id) VALUES
\* (%s, int(tag_id)) with its except (ValueError, psycopg2.Error): pass.
\* A tag id that int() refuses is skipped before any statement runs. A
\* statement the store refuses leaves the database transaction aborted:
\* every later statement in it fails as well and commit() rolls it back.
AttachTags(transaction_id, tag_ids) ==
    LET nums == {ToNumber(tag_ids[i]) : i \in DOMAIN tag_ids}
    IN  [links |-> {<<transaction_id, n.val[2]>> :
                        n \in {m \in nums : m.ok /\ m.val[1] = "int"}},
         aborted |-> \E m \in nums : m.ok /\ m.val = BigId]

\* The handler up to and including the ownership SELECT and the tests
\* that follow it: the response, or the invocation about to run its UPDATE.
\* pre keeps the request and the owner of the named row as the SELECT
\* found it (0: no such row).
UpdateSelect(table, who, rid, data) ==
    LET user_id == RecordsAuth(table, who)
        uid == IF user_id.ok THEN user_id.val[2] ELSE 0
        r == [Idle EXCEPT
                !.mod = table, !.op = "update", !.uid = uid,
                !.pre = [rid |-> rid, data |-> data,
                         owner |-> IF rid \in DOMAIN records[table]
                                   THEN records[table][rid].user_id ELSE 0]]
        fields == UpdateFields(table, data)
        raises ==
            /\ table = "transactions"
            /\ \/ /\ DictHas(data, "amount")
                  /\ ~ToNumber(DictGet(data, "amount", IntVal(0))).ok
               \/ /\ DictHas(data, "date")
                  /\ ~ParseDate(DictGet(data, "date", <<>>)).ok
    IN  IF uid = 0 THEN Done(r, Unauthorized(table))
        ELSE IF table # "transactions" /\ rid = 0
        THEN Done(r, error_response(IdRequired(table), 400))
        ELSE IF ~Owned(table, rid, uid)
        THEN Done(r, error_response(NotFound(table), 404))
        ELSE IF /\ table = "goals"
                /\ DictHas(data, "target_amount")
                /\ DictGet(data, "target_amount", IntVal(0))[2] <= 0
        THEN Done(r, error_response("Target amount must be positive", 400))
        ELSE IF raises
        THEN Done(r, error_response(UpdateFailed(table), 500))
        ELSE IF DOMAIN fields = {} /\ ~DictHas(data, "tag_ids")
        THEN IF table = "transactions"
             THEN Done(r, success_response("Transaction updated successfully"))
             ELSE Done(r, error_response("No fields to update", 400))
        ELSE [r EXCEPT !.pc = "update"]

RecordsUpdateStart(p, table) ==
    /\ FreeSlot(p)
    /\ nreq < MaxReq
    /\ \E who \in {0} \cup UserIds, rid \in 0..3, data \in Updates(table) :
          Place(p, UpdateSelect(table, who, rid, data))
    /\ Drawn(p)
    /\ StoreUnchanged
    /\ UNCHANGED <<clock, nadv, jwt>>

\* The UPDATE statement, commit and the response. goals and calendar
\* update WHERE id AND user_id and read the returned row, which raises when
\* there is none. transactions updates WHERE id, replaces the links of the
\* transaction when tag_ids is given, commits and reads nothing back.
RecordsUpdateWrite(p) ==
    LET r == req[p]
        table == r.mod
        rid == r.pre.rid
        data == r.pre.data
        fields == UpdateFields(table, data)
        matches == IF table = "transactions"
                   THEN rid \in DOMAIN records[table]
                   ELSE Owned(table, rid, r.uid)
        row == SetFields(records[table][rid], fields)
        retag == table = "transactions" /\ DictHas(data, "tag_ids")
        tags == AttachTags(rid, DictGet(data, "tag_ids", <<>>))
        links == {l \in records["transaction_tags"] : l[1] # rid}
                     \cup tags.links
        updated == IF matches THEN [records EXCEPT ![table][rid] = row]
                   ELSE records
    IN  /\ last = Idle
        /\ r.op = "update"
        /\ r.mod \in Tables
        /\ r.pc = "update"
        /\ IF table = "transactions"
           THEN IF retag /\ tags.aborted
                THEN /\ UNCHANGED records
                     /\ Place(p, Done(r, success_response(
                                             "Transaction updated successfully")))
                ELSE /\ records' = IF retag
                                   THEN [updated EXCEPT !["transaction_tags"] = links]
                                   ELSE updated
                     /\ Place(p, [Done(r, success_response(
                                              "Transaction updated successfully"))
                                     EXCEPT !.wrote = matches \/ retag])
           ELSE IF matches
           THEN /\ records' = updated
                /\ Place(p, [Done(r, success_response_data(row))
                                EXCEPT !.wrote = TRUE])
           ELSE /\ UNCHANGED records
                /\ Place(p, Done(r, error_response(UpdateFailed(table), 500)))
        /\ UNCHANGED <<users, issued, latest, consumed, clock, nadv, nreq, jwt>>

\* The handler's DELETE branch and delete_goal / delete_event /
\* delete_transaction: DELETE ... WHERE id AND user_id RETURNING id
DeleteResult(table, who, rid) ==
    LET user_id == RecordsAuth(table, who)
        uid == IF user_id.ok THEN user_id.val[2] ELSE 0
        r == [Idle EXCEPT
                !.mod = table, !.op = "delete", !.uid = uid,
                !.pre = [rid |-> rid, data |-> <<>>,
                         owner |-> IF rid \in DOMAIN records[table]
                                   THEN records[table][rid].user_id ELSE 0]]
    IN  IF uid = 0 THEN Done(r, Unauthorized(table))
        ELSE IF rid = 0
        THEN Done(r, error_response(IdRequired(table), 400))
        ELSE IF ~Owned(table, rid, uid)
        THEN Done(r, error_response(NotFound(table), 404))
        ELSE [Done(r, IF table = "transactions"
                      THEN success_response("Transaction deleted successfully")
                      ELSE success_response_data(
                               [message |-> IF table = "goals"
                                            THEN "Goal deleted successfully"
                                            ELSE "Event deleted successfully",
                                id |-> rid]))
                 EXCEPT !.wrote = TRUE]

RecordsDelete(p, table) ==
    /\ FreeSlot(p)
    /\ nreq < MaxReq
    /\ \E who \in {0} \cup UserIds, rid \in 0..3 :
          LET r == DeleteResult(table, who, rid)
          IN  /\ Place(p, r)
              /\ IF r.wrote
                 THEN /\ records' =
                             [records EXCEPT
                                ![table] = [i \in DOMAIN @ \ {rid} |-> @[i]]]
                      /\ nreq' = nreq + 1
                 ELSE UNCHANGED <<records, nreq>>
    /\ UNCHANGED <<users, issued, latest, consumed, clock, nadv, jwt>>

NextRecords ==
    \/ \E p \in Procs, table \in Tables : RecordsUpdateStart(p, table)
    \/ \E p \in Procs : RecordsUpdateWrite(p)
    \/ \E p \in Procs, table \in Tables : RecordsDelete(p, table)
    \/ Respond

SpecRecords == InitSession /\ [][NextRecords]_vars

---------------------------------------------------------------------------
(* Transactions and their tags *)

\* tag_ids of a request body: own and foreign tags, strings that are and
\* are not numbers, and an id the store refuses
TagLists ==
    {<<>>, <<IntVal(1)>>, <<IntVal(2)>>,
     <<StrVal(<<"x">>), StrVal(<<"1">>)>>,
     <<IntVal(1), BigId>>}

\* bodies of POST create_transaction requests
CreateBodies ==
    LET body(amount, date, tag_ids) ==
            << <<"type", StrVal(<<"income">>)>>, <<"amount", amount>>,
               <<"category", StrVal(<<"food">>)>>, <<"date", date>>,
               <<"tag_ids", tag_ids>> >>
        day == <<2024, "-", 1, "-", 31>>
    IN  {body(IntVal(5), day, l) : l \in TagLists}
        \cup {body(StrVal(<<"a">>), day, <<IntVal(1)>>),
              body(IntVal(5), <<31, ".", 1, ".", 2024>>, <<IntVal(1)>>),
              body(IntVal(5), <<2024, "-", 2, "-", 30>>, <<>>),
              body(IntVal(0), day, <<>>)}

\* create_transaction(conn, user_id, data), the id being the one the
\* INSERT ... RETURNING id draws: the response, the tables after commit,
\* whether the INSERT was reached and whether its row was committed
create_transaction(user_id, data, transaction_id) ==
    LET amount == DictGet(data, "amount", StrVal(<<>>))
        date_str == DictGet(data, "date", <<>>)
        tag_ids == DictGet(data, "tag_ids", <<>>)
        falsy(v) == v = StrVal(<<>>) \/ v = IntVal(0) \/ v = <<>>
        refuse(message) ==
            [resp |-> error_response(message, 400), records |-> records,
             inserted |-> FALSE, wrote |-> FALSE]
        tags == AttachTags(transaction_id, tag_ids)
        row == [user_id |-> user_id,
                description |-> DictGet(data, "description", StrVal(<<>>))[2],
                amount |-> ToNumber(amount).val[2],
                date |-> ParseDate(date_str).val]
        committed ==
            [records EXCEPT
               !["transactions"] = (transaction_id :> row) @@ @,
               !["transaction_tags"] = @ \cup tags.links]
        after == IF tags.aborted THEN records ELSE committed
        listed == {[id |-> l[2], name |-> after["tags"][l[2]].name,
                    color |-> after["tags"][l[2]].color] :
                      l \in {k \in after["transaction_tags"] :
                                /\ k[1] = transaction_id
                                /\ k[2] \in DOMAIN after["tags"]}}
    IN  IF \/ falsy(DictGet(data, "type", StrVal(<<>>)))
           \/ falsy(amount)
           \/ falsy(DictGet(data, "category", StrVal(<<>>)))
           \/ falsy(date_str)
        THEN refuse("Required fields missing")
        ELSE IF DictGet(data, "type", StrVal(<<>>))[2]
                    \notin {<<"income">>, <<"expense">>}
        THEN refuse("Invalid transaction type")
        ELSE IF ~ToNumber(amount).ok \/ ~ParseDate(date_str).ok
        THEN refuse("Invalid amount or date format")
        ELSE [resp |-> success_response_data(
                           [id |-> transaction_id, amount |-> row.amount,
                            date |-> row.date, tags |-> listed]),
              records |-> after, inserted |-> TRUE, wrote |-> ~tags.aborted]

\* POST create_transaction: the handler with its authorization
TxCreate(p) ==
    /\ FreeSlot(p)
    /\ nreq < MaxReq
    /\ \E who \in {0} \cup UserIds, data \in CreateBodies :
          LET user_id == RecordsAuth("transactions", who)
              uid == IF user_id.ok THEN user_id.val[2] ELSE 0
              r == [Idle EXCEPT
                      !.mod = "transactions", !.op = "create", !.uid = uid,
                      !.pre = [rid |-> nreq + 2, data |-> data, owner |-> uid]]
              out == create_transaction(uid, data, nreq + 2)
          IN  IF uid = 0
              THEN /\ Place(p, Done(r, Unauthorized("transactions")))
                   /\ UNCHANGED <<records, nreq>>
              ELSE /\ Place(p, [Done(r, out.resp) EXCEPT !.wrote = out.wrote])
                   /\ records' = out.records
                   /\ nreq' = IF out.inserted THEN nreq + 1 ELSE nreq
    /\ UNCHANGED <<users, issued, latest, consumed, clock, nadv, jwt>>

\* bodies of PUT requests to transactions
TxUpdateBodies ==
    {<< <<"amount", IntVal(7)>> >>,
     << <<"amount", StrVal(<<"a">>)>> >>,
     << <<"date", <<31, ".", 1, ".", 2024>> >> >>,
     << <<"date", <<2024, "-", 2, "-", 29>> >>, <<"tag_ids", <<IntVal(1)>> >> >>,
     << <<"tag_ids", <<StrVal(<<"x">>), IntVal(2)>> >> >>,
     << <<"description", StrVal(<<"n">>)>>,
        <<"tag_ids", <<IntVal(2), BigId>> >> >>}

\* PUT: update_transaction, up to its ownership SELECT and conversions
TxUpdateStart(p) ==
    /\ FreeSlot(p)
    /\ nreq < MaxReq
    /\ \E who \in UserIds, rid \in 1 .. 3, data \in TxUpdateBodies :
          Place(p, UpdateSelect("transactions", who, rid, data))
    /\ Drawn(p)
    /\ StoreUnchanged
    /\ UNCHANGED <<clock, nadv, jwt>>

\* get_transactions: the transactions of the caller, each with the tags
\* that LEFT JOIN transaction_tags and LEFT JOIN tags ON tt.tag_id = tag.id
\* bring, as json_build_object('id', 'name', 'color')
get_transactions(user_id) ==
    LET own == {t \in DOMAIN records["transactions"] :
                   records["transactions"][t].user_id = user_id}
    IN  [t \in own |->
            [amount |-> records["transactions"][t].amount,
             tags |-> {[id |-> l[2], name |-> records["tags"][l[2]].name,
                        color |-> records["tags"][l[2]].color] :
                          l \in {k \in records["transaction_tags"] :
                                    /\ k[1] = t
                                    /\ k[2] \in DOMAIN records["tags"]}}]]

\* GET ?action=list
TxList(p) ==
    /\ FreeSlot(p)
    /\ \E who \in UserIds :
          Place(p, Done([Idle EXCEPT !.mod = "transactions", !.op = "list",
                                     !.uid = who],
                        success_response_data(get_transactions(who))))
    /\ StoreUnchanged
    /\ UNCHANGED <<clock, nadv, nreq, jwt>>

NextTx ==
    \/ \E p \in Procs : TxCreate(p)
    \/ \E p \in Procs : TxUpdateStart(p)
    \/ \E p \in Procs : RecordsUpdateWrite(p)
    \/ \E p \in Procs : TxList(p)
    \/ Respond

SpecTx == InitSession /\ [][NextTx]_vars

---------------------------------------------------------------------------
(* The store connection of a handler invocation                          *)
(*                                                                       *)
(* Every handler has the same frame around its dispatch: the connection  *)
(* is opened inside try, every branch returns from inside try, except    *)
(* Exception answers 500 and finally closes the connection. pre holds    *)
(* the local variable conn ("unbound", "None", "open" or "closed"), how  *)
(* often psycopg2.connect succeeded and the path the invocation took.    *)

\* auth, goals and calendar set conn = None before try; user-auth and
\* transactions bind conn only by the connect call
ConnAtEntry(mod) ==
    IF mod \in {"auth", "goals", "calendar_events"} THEN "None" ELSE "unbound"

\* goals, calendar and transactions authenticate before try and return 401
\* without a connection
ChecksBeforeTry(mod) == mod \in Tables

\* the ways a dispatched operation ends: it returns a response of its own
\* (its except branch included, "failed"), or an exception escapes it
Paths == {"success", "validation", "not found", "failed", "raised"}

PathResponse(path) ==
    CASE path = "success" -> success_response("ok")
      [] path = "validation" -> error_response("validation", 400)
      [] path = "not found" -> error_response("not found", 404)
      [] path = "failed" -> error_response("failed", 500)
      [] OTHER -> error_response("Server error", 500)

\* Faulty variant: the connection is left as it is
Finally_Skips(mod, conn) == conn

\* finally: if conn: conn.close()   (auth, goals, calendar)
\* finally: if 'conn' in locals(): conn.close()   (user-auth, transactions)
Finally(mod, conn) == IF conn = "open" THEN "closed" ELSE conn

\* the invocation begins; modules that authenticate first may return here
HandlerEnter(p, mod) ==
    LET r == [Idle EXCEPT !.mod = mod, !.op = "invoke", !.pc = "try",
                          !.pre = [conn |-> ConnAtEntry(mod), opened |-> 0,
                                   path |-> "entered"]]
    IN  /\ FreeSlot(p)
        /\ \/ Place(p, r)
           \/ /\ ChecksBeforeTry(mod)
              /\ Place(p, Done([r EXCEPT !.pre.path = "unauthorized"],
                               error_response("Authentication required", 401)))
        /\ StoreUnchanged
        /\ UNCHANGED <<clock, nadv, nreq, jwt>>

\* conn = psycopg2.connect(os.environ['DATABASE_URL']): a connection, or an
\* exception that leaves conn as it was
HandlerConnect(p) ==
    LET r == req[p]
    IN  /\ last = Idle
        /\ r.op = "invoke"
        /\ r.pc = "try"
        /\ \/ Place(p, [r EXCEPT !.pc = "dispatch", !.pre.conn = "open",
                                 !.pre.opened = @ + 1])
           \/ Place(p, [r EXCEPT !.pc = "except", !.pre.path = "no connection"])
        /\ StoreUnchanged
        /\ UNCHANGED <<clock, nadv, nreq, jwt>>

\* the dispatched operation runs: return <response> inside try, or an
\* exception
HandlerDispatch(p) ==
    LET r == req[p]
    IN  /\ last = Idle
        /\ r.op = "invoke"
        /\ r.pc = "dispatch"
        /\ \E path \in Paths :
              Place(p, [r EXCEPT
                          !.pc = IF path = "raised" THEN "except" ELSE "finally",
                          !.pre.path = path,
                          !.resp = PathResponse(path)])
        /\ StoreUnchanged
        /\ UNCHANGED <<clock, nadv, nreq, jwt>>

\* except Exception as e: return error_response('Server error: ...', 500)
HandlerExcept(p) ==
    LET r == req[p]
    IN  /\ last = Idle
        /\ r.op = "invoke"
        /\ r.pc = "except"
        /\ Place(p, [r EXCEPT !.pc = "finally",
                              !.resp = error_response("Server error", 500)])
        /\ StoreUnchanged
        /\ UNCHANGED <<clock, nadv, nreq, jwt>>

\* the finally clause runs and the invocation ends with its response
HandlerFinally(p) ==
    LET r == req[p]
    IN  /\ last = Idle
        /\ r.op = "invoke"
        /\ r.pc = "finally"
        /\ Place(p, Done([r EXCEPT !.pre.conn = Finally(r.mod, @)], r.resp))
        /\ StoreUnchanged
        /\ UNCHANGED <<clock, nadv, nreq, jwt>>

NextConn ==
    \/ \E p \in Procs, mod \in Modules \cup Tables : HandlerEnter(p, mod)
    \/ \E p \in Procs : HandlerConnect(p)
    \/ \E p \in Procs : HandlerDispatch(p)
    \/ \E p \in Procs : HandlerExcept(p)
    \/ \E p \in Procs : HandlerFinally(p)
    \/ Respond

SpecConn == InitSession /\ [][NextConn]_vars

---------------------------------------------------------------------------

Init ==
    /\ users = InitUsers
    /\ clock = StartSec * TicksPerSec
    /\ nadv = 0
    /\ nreq = 0
    /\ req = [p \in Procs |-> Idle]
    /\ issued = [t \in ResetTokens |-> NoIssue]
    /\ latest = [u \in UserIds |-> NULL]
    /\ consumed = [t \in ResetTokens |-> 0]
    /\ last = Idle
    /\ jwt = JwtIdle
    /\ records = InitRecords

Next ==
    \/ \E p \in Procs : AuthResetStart(p)
    \/ \E p \in Procs : AuthResetUpdate(p)
    \/ \E p \in Procs : AuthConfirmStart(p)
    \/ \E p \in Procs : AuthConfirmUpdate(p)
    \/ \E p \in Procs : AuthLogin(p)
    \/ \E p \in Procs : UaReset(p)
    \/ \E p \in Procs : UaConfirm(p)
    \/ Respond
    \/ Advance

Spec == Init /\ [][Next]_vars

NextJwt ==
    \/ CreateReadExp
    \/ CreateReadIat
    \/ VerifyIssued
    \/ VerifyCrafted
    \/ VerifyForged
    \/ JwtAdvance

SpecJwt == Init /\ [][NextJwt]_vars

---------------------------------------------------------------------------
(* Properties of the reset flow, checked under Spec *)

AuthConfirmEnded == last.mod = "auth" /\ last.op = "confirm_reset"

Rejected(text) == last.resp = error_response(text, 400) /\ ~last.wrote

\* A confirm_reset rejected by its input validation, before any store access
RejectedByValidation ==
    /\ ~last.wrote
    /\ \/ last.resp = error_response("Token and new password are required", 400)
       \/ last.resp = error_response(MsgTooShort, 400)

\* C1: when two confirm_reset requests carrying the same valid, unexpired
\* reset token run concurrently, exactly one returns success and the other
\* returns 'Invalid or expired token': no reset token is ever answered with
\* success twice.
C1_ConsumedExactlyOnce == \A t \in ResetTokens : consumed[t] <= 1

\* C2 as stated: in the auth module, once confirm_reset(R, p1) has succeeded,
\* every later confirm_reset(R, p2) is rejected with 'Invalid or expired
\* token' and writes no password hash.
C2_LaterConfirmInvalidToken ==
    (AuthConfirmEnded /\ last.pre.consumed) => Rejected(MsgInvalidToken)

\* C2 amended: once confirm_reset(R, p1) has succeeded, every later
\* confirm_reset(R, p2) is rejected with status 400 and writes no password
\* hash; the message is 'Invalid or expired token' when p2 has at least 6
\* characters, and the input-validation message otherwise.
C2_LaterConfirmRejected ==
    (AuthConfirmEnded /\ last.pre.consumed) =>
        IF Len(last.password) >= MIN_PASSWORD
        THEN Rejected(MsgInvalidToken)
        ELSE RejectedByValidation

C2_Witness ==
    /\ AuthConfirmEnded
    /\ last.pre.consumed
    /\ last.password = "newpass1"
    /\ Rejected(MsgInvalidToken)
    /\ users[1].password_hash.pw = "secret1"

\* C3: in the user-auth module, confirm_reset returns success only when the
\* presented token equals some user's stored, unexpired reset token and the
\* new password has at least 6 characters.
C3_UaConfirmSuccessOnlyIfValid ==
    (last.mod = "user-auth" /\ last.op = "confirm_reset"
        /\ last.resp.statusCode = 200) =>
        (last.pre.live /\ Len(last.password) >= MIN_PASSWORD)

\* The expiry a committed reset token carries is its issue time + 3600 s.
ExpiryIsOneHour ==
    \A t \in ResetTokens :
        issued[t] # NoIssue =>
            /\ issued[t].expires = issued[t].at + RESET_TTL * TicksPerSec
            /\ \A u \in DOMAIN users :
                  users[u].reset_token = t =>
                      users[u].reset_token_expires = Timestamp(issued[t].expires)

\* A login with the password a user registered with, while that user's
\* password hash is still the registered one, succeeds.
OriginalPasswordLogsIn ==
    (last.mod = "auth" /\ last.op = "login"
        /\ NormalizeEmail(last.email) = EmailA /\ last.password = "secret1"
        /\ users[1].password_hash = InitUsers[1].password_hash) =>
        last.resp.statusCode = 200

\* C4 as stated: a reset token issued at time t carries expiry t + 3600 s; a
\* confirm_reset presenting it after that expiry is rejected with 'Invalid or
\* expired token' and the stored password hash is unchanged, so the original
\* password still logs in.
C4_ExpiredConfirmInvalidToken ==
    /\ ExpiryIsOneHour
    /\ (AuthConfirmEnded /\ last.pre.expired) => Rejected(MsgInvalidToken)
    /\ OriginalPasswordLogsIn

\* C4 amended: a reset token issued at time t carries expiry t + 3600 s; a
\* confirm_reset presenting it after that expiry is rejected with status 400
\* ('Invalid or expired token' when the new password has at least 6
\* characters, the input-validation message otherwise) and the stored
\* password hash is unchanged, so the original password still logs in.
C4_ExpiredConfirmRejected ==
    /\ ExpiryIsOneHour
    /\ (AuthConfirmEnded /\ last.pre.expired) =>
          IF Len(last.password) >= MIN_PASSWORD
          THEN Rejected(MsgInvalidToken)
          ELSE RejectedByValidation
    /\ OriginalPasswordLogsIn

C4_Witness ==
    /\ AuthConfirmEnded
    /\ last.pre.expired
    /\ ~last.pre.consumed
    /\ ~last.pre.superseded
    /\ last.password = "newpass1"
    /\ Rejected(MsgInvalidToken)
    /\ users[1].reset_token = last.token
    /\ Checkpw("secret1", users[1].password_hash)

ResetEnded == last.op = "reset_password"

\* C5 as stated: for any two non-empty emails, one of a registered account
\* and one not, reset_password returns the identical response in both
\* modules: every non-empty email is answered 200 'Reset email sent if
\* account exists'.
C5_NonEmptyEmailSameResponse ==
    (ResetEnded /\ last.email # <<>>) =>
        last.resp = success_response(MsgResetSent)

\* C5 amended: for any two emails that are non-empty after trimming
\* whitespace, one of a registered account and one not, reset_password
\* returns the identical response (200, 'Reset email sent if account
\* exists') in both modules.
C5_TrimmedEmailSameResponse ==
    (ResetEnded /\ NormalizeEmail(last.email) # <<>>) =>
        last.resp = success_response(MsgResetSent)

C5_Witness ==
    /\ ResetEnded
    /\ last.mod = "auth"
    /\ SelectByEmail(NormalizeEmail(last.email)) = {}
    /\ NormalizeEmail(last.email) # <<>>
    /\ last.resp = success_response(MsgResetSent)
    /\ \E u \in DOMAIN users : users[u].reset_token # NULL

\* The reset tokens of user u that a confirm_reset would accept now
LiveTokens(u) ==
    {t \in ResetTokens :
        issued[t].uid = u /\ SelectByResetToken(t, clock) # {}}

\* C6: in every reachable state each user has at most one live reset
\* credential: once reset_password has issued R1 and later R2 for the same
\* user, a confirm_reset presenting R1 is rejected and writes nothing.
C6_OneLiveResetCredential ==
    /\ \A u \in DOMAIN users : Cardinality(LiveTokens(u)) <= 1
    /\ (AuthConfirmEnded /\ last.pre.superseded) =>
          (last.resp.statusCode = 400 /\ ~last.wrote)

C6_Witness ==
    /\ AuthConfirmEnded
    /\ last.pre.superseded
    /\ ~last.pre.expired
    /\ ~last.pre.consumed
    /\ last.password = "newpass1"
    /\ Rejected(MsgInvalidToken)
    /\ LiveTokens(1) # {}

---------------------------------------------------------------------------
(* Properties of the token codec, checked under SpecJwt *)

\* the verified token's exp, when it is a number
HasNumericExp(payload) ==
    DictHas(payload, "exp") /\ DictGet(payload, "exp", IntVal(0))[1] = "int"

ExpTicks(payload) == DictGet(payload, "exp", IntVal(0))[2] * TicksPerSec

\* C7: verify_jwt_token rejects (returns None for) every token whose exp is
\* earlier than the current time, even when its signature is the correct
\* HMAC under the server secret.
C7_ExpiredTokenRejected ==
    (jwt.out.called /\ HasNumericExp(jwt.out.payload)
        /\ ExpTicks(jwt.out.payload) < jwt.out.now) =>
        jwt.out.res = None

C7_Witness ==
    /\ jwt.out.called
    /\ jwt.out.made = "create_jwt_token"
    /\ jwt.out.signed = jwt.out.key
    /\ ExpTicks(jwt.out.payload) < jwt.out.now
    /\ jwt.out.res = None

\* C8: verify_jwt_token accepts a correctly signed token only if its payload
\* has an exp strictly greater than the current time: a token with exp
\* missing, or with exp equal to the current time, is rejected.
C8_AcceptedOnlyIfExpInFuture ==
    (jwt.out.called /\ jwt.out.res.ok) =>
        /\ HasNumericExp(jwt.out.payload)
        /\ ExpTicks(jwt.out.payload) > jwt.out.now

\* C9: every token produced by create_jwt_token has iat equal to the Unix
\* time of issuance and exp = iat + 604800 exactly, for every behaviour of
\* the clock during issuance.
C9_ExpIsIatPlusTtl ==
    jwt.token # NoToken =>
        /\ DictGet(jwt.payload, "iat", IntVal(0)) = IntVal(UnixTime(jwt.issued_at))
        /\ DictGet(jwt.payload, "exp", IntVal(0))
              = IntVal(UnixTime(jwt.issued_at) + JWT_TTL)

\* result has every field of the claim set c, with c's value
HasFieldsOf(result, c) ==
    \A i \in 1 .. Len(c) : DictHas(result, c[i][1])
                            /\ DictGet(result, c[i][1], IntVal(0)) = c[i][2]

\* C10: for every claim set c and secret k, verify_jwt_token under k applied
\* before expiry to create_jwt_token(c) signed under k returns c's fields
\* plus iat and exp; verifying the same token under any different secret
\* returns None.
C10_RoundTrip ==
    (jwt.out.called /\ jwt.out.made = "create_jwt_token") =>
        IF jwt.out.key # jwt.out.signed
        THEN jwt.out.res = None
        ELSE ExpTicks(jwt.payload) > jwt.out.now =>
                /\ jwt.out.res.ok
                /\ HasFieldsOf(jwt.out.res.val, jwt.claims)
                /\ Len(jwt.out.res.val) = Len(jwt.claims) + 2
                /\ DictGet(jwt.out.res.val, "iat", IntVal(0))
                      = IntVal(UnixTime(jwt.issued_at))
                /\ DictGet(jwt.out.res.val, "exp", IntVal(0))
                      = IntVal(UnixTime(jwt.began) + JWT_TTL)

C10_Witness ==
    /\ jwt.out.called
    /\ jwt.out.made = "create_jwt_token"
    /\ jwt.out.key = jwt.out.signed
    /\ jwt.token[2].data % 4 = 0
    /\ jwt.out.res.ok
    /\ HasFieldsOf(jwt.out.res.val, jwt.claims)
    /\ jwt.claims # <<>>

\* C11: verify_jwt_token accepts a token only if its third segment decodes
\* to the HMAC-SHA256, under the server secret, of the first two segments as
\* received: a token whose payload or header was replaced after signing is
\* rejected, and a token so signed and not expired is accepted whatever
\* algorithm its header declares.
C11_AcceptedOnlyIfSignedAsReceived ==
    LET o == jwt.out
    IN  o.called =>
          /\ o.res.ok =>
                /\ Len(o.token) = 3
                /\ o.signed = o.key
                /\ o.over = Message(o.token[1], o.token[2])
          /\ (o.made = "forged" /\ o.signed = o.key
                 /\ o.over = Message(o.token[1], o.token[2])
                 /\ ExpTicks(o.payload) > o.now) => o.res.ok

C11_Witness ==
    LET o == jwt.out
    IN  /\ o.called /\ o.made = "forged"
        /\ o.signed = o.key
        /\ o.payload # jwt.payload
        /\ o.over = Message(jwt.token[1], jwt.token[2])
        /\ o.res = None

---------------------------------------------------------------------------
(* Properties of accounts and sessions, checked under SpecSession *)

\* the session check that just ended, and how its token was made
Checked(why) == last.op = "session" /\ last.pre.why = why

\* the token created last, presented strictly before its exp
IssuedInTime == Checked("issued") /\ clock < ExpTicks(jwt.payload)

\* C12: on the GET session check of auth and of user-auth, every token that
\* fails validation (segment count other than 3, an undecodable segment, a
\* signature mismatch, a missing or a past exp) is answered with the same
\* 401 and the same error body.
C12_InvalidTokenSame401 ==
    (\/ \E why \in {"two segments", "four segments", "undecodable",
                     "not json", "mismatch", "no exp", "expired"} :
            Checked(why)
     \/ Checked("issued") /\ ExpTicks(jwt.payload) < clock) =>
        last.resp = error_response("Invalid token", 401)

C12_Witness ==
    /\ Checked("issued")
    /\ ExpTicks(jwt.payload) < clock
    /\ last.mod = "user-auth"
    /\ last.resp = error_response("Invalid token", 401)

\* the registered users whose password is not the one presented
WrongFor(email, password) ==
    {u \in SelectByEmail(NormalizeEmail(email)) :
        users[u].password_hash.pw # password}

\* C13: a login with a registered email and a wrong password is answered
\* exactly as a login with an email that has no account, 401 'Invalid
\* credentials', in both modules, and neither creates a token. (Email and
\* password are both supplied.)
C13_WrongPasswordAsUnknownEmail ==
    [][(/\ last = Idle
        /\ last'.op = "login"
        /\ NormalizeEmail(last'.email) # <<>>
        /\ last'.password # ""
        /\ \/ SelectByEmail(NormalizeEmail(last'.email)) = {}
           \/ WrongFor(last'.email, last'.password) # {})
       => (/\ last'.resp = error_response("Invalid credentials", 401)
           /\ jwt' = jwt)]_vars

C13_Witness ==
    /\ last.op = "login"
    /\ last.mod = "user-auth"
    /\ last.password # ""
    /\ WrongFor(last.email, last.password) # {}
    /\ last.resp = error_response("Invalid credentials", 401)

\* the user id in the claims of the token created last
IssuedTo == DictGet(jwt.claims, "user_id", IntVal(0))[2]

\* C14: a session token is accepted by the session check at every time
\* strictly before its exp, whatever was done since it was created,
\* logout and a successful password reset included: nothing is revoked.
C14_AcceptedUntilExp ==
    IssuedInTime =>
        /\ last.resp.statusCode = 200
        /\ last.resp.data.user.id = IssuedTo

C14_Witness ==
    /\ IssuedInTime
    /\ clock > jwt.issued_at
    /\ last.pre.logout
    /\ last.pre.resets # consumed
    /\ IssuedTo = 1
    /\ users[1].password_hash.pw = "newpass1"
    /\ last.resp.statusCode = 200

\* C15: every successful register and login response, in auth and in
\* user-auth, carries a Set-Cookie header that sets auth_token to the token
\* just created, with Path=/, HttpOnly, SameSite=Lax and Max-Age=604800.
C15_SuccessSetsCookie ==
    (last.op \in {"register", "login"} /\ last.resp.statusCode = 200) =>
        LET c == last.resp.set_cookie
        IN  /\ c.name = "auth_token"
            /\ c.value = jwt.token
            /\ c.path = "/"
            /\ c.http_only
            /\ c.same_site = "Lax"
            /\ c.max_age = 604800

\* C17: however register requests for one case-folded email interleave, at
\* most one of them creates a user and every other one is answered 409
\* 'User already exists'.
C17_OneCreatesOthersConflict ==
    /\ \A u, v \in DOMAIN users : users[u].email = users[v].email => u = v
    /\ (/\ last.op = "register"
        /\ NormalizeEmail(last.email) # <<>>
        /\ Len(last.password) >= 6
        /\ ~last.wrote)
       => last.resp = error_response("User already exists", 409)

\* C18: register in both modules, and confirm_reset in auth, answer a
\* password shorter than 6 characters with a 400 error and write nothing
\* to the store.
C18_ShortPasswordRejected ==
    [][(/\ last = Idle
        /\ last'.op \in {"register", "confirm_reset"}
        /\ Len(last'.password) < 6)
       => (/\ last'.resp.statusCode = 400
           /\ last'.resp.key = "error"
           /\ users' = users)]_vars

C18_Witness ==
    /\ last.op = "register"
    /\ last.mod = "user-auth"
    /\ NormalizeEmail(last.email) = EmailN
    /\ last.password = "abc"
    /\ last.resp = error_response(MsgTooShort, 400)
    /\ SelectByEmail(EmailN) = {}

\* C20: after a register request has succeeded and created the token T, a
\* session check that carries T as the auth_token cookie before T's exp is
\* answered 200 with the id and the email of the registered user.
C20_RegisteredTokenChecks ==
    (IssuedInTime /\ jwt.by = "register") =>
        /\ last.resp.statusCode = 200
        /\ last.resp.data.valid
        /\ last.resp.data.user = [id |-> IssuedTo, email |-> EmailN]
        /\ users[IssuedTo].email = EmailN
        /\ IssuedTo \notin UserIds

C20_Witness ==
    /\ IssuedInTime
    /\ jwt.by = "register"
    /\ last.mod = "auth"
    /\ clock > jwt.issued_at
    /\ last.resp.statusCode = 200
    /\ last.resp.data.user.email = EmailN

---------------------------------------------------------------------------
(* Properties of goals, calendar events and transactions, checked under  *)
(* SpecRecords                                                           *)

\* C19: in goals, calendar events and transactions, an update or delete
\* request of an authenticated caller that names a record id which does
\* not exist, or whose record belongs to a different user, is answered 404
\* and leaves every stored record unchanged.
C19_ForeignOrAbsent404 ==
    [][(/\ last = Idle
        /\ last'.mod \in Tables
        /\ last'.op \in {"update", "delete"}
        /\ last'.uid # 0
        /\ last'.pre.rid # 0
        /\ last'.pre.owner # last'.uid)
       => (/\ last'.resp = error_response(NotFound(last'.mod), 404)
           /\ records' = records)]_vars

C19_Witness ==
    /\ last.mod = "transactions"
    /\ last.op = "update"
    /\ last.uid = 1
    /\ last.pre.rid = 2
    /\ last.pre.owner = 2
    /\ DictHas(last.pre.data, "amount")
    /\ last.resp = error_response("Transaction not found", 404)
    /\ records["transactions"][2].amount = 1

---------------------------------------------------------------------------
(* Further properties of the reset flow, checked under Spec *)

\* the hash and the reset columns of user u change in this step
HashReplaced(u) == users'[u].password_hash # users[u].password_hash
ResetCleared(u) ==
    /\ users[u].reset_token # NULL
    /\ users'[u].reset_token = NULL

\* what holds of the store when confirm_reset(R, p) has just succeeded
ConfirmTookEffect ==
    LET u == last.uid
        row == users[u]
    IN  /\ row.reset_token = NULL
        /\ row.reset_token_expires = NULL
        /\ AuthLoginResult(row.email, last.password).resp.statusCode = 200
        /\ AuthLoginResult(row.email, last.password).uid = u
        /\ \A q \in Passwords \ {"", last.password} :
              AuthLoginResult(row.email, q).resp
                  = error_response("Invalid credentials", 401)

\* C23: when confirm_reset(R, p) of the auth module succeeds for user u,
\* the stored reset token and expiry of u are both null, a login with u's
\* email and p succeeds and a login with any other password, the previous
\* one included, is rejected; in every step a password hash is replaced
\* exactly when the reset token of that user is cleared.
C23_ConfirmReplacesAndClears ==
    [][/\ (/\ last = Idle
           /\ last'.mod = "auth"
           /\ last'.op = "confirm_reset"
           /\ last'.resp = success_response(MsgResetOk))
          => ConfirmTookEffect'
       /\ \A u \in DOMAIN users :
             /\ HashReplaced(u) =>
                   /\ users'[u].reset_token = NULL
                   /\ users'[u].reset_token_expires = NULL
             /\ ResetCleared(u) => HashReplaced(u)]_vars

C23_Witness ==
    /\ AuthConfirmEnded
    /\ last.resp = success_response(MsgResetOk)
    /\ last.password = "newpass1"
    /\ last.uid = 1
    /\ users[1].reset_token = NULL
    /\ AuthLoginResult(EmailA, "newpass1").resp.statusCode = 200
    /\ AuthLoginResult(EmailA, "secret1").resp.statusCode = 401

\* C27: a reset token that was issued for a user, is not expired, was not
\* consumed and was not superseded by a later issuance for that user is one
\* that confirm_reset accepts: the store still holds it, also after a
\* concurrent confirm_reset of an older token of that user has written.
C27_LiveTokenStaysAccepted ==
    \A t \in ResetTokens :
        (/\ issued[t] # NoIssue
         /\ clock < issued[t].expires
         /\ consumed[t] = 0
         /\ latest[issued[t].uid] = t)
        => SelectByResetToken(t, clock) = {issued[t].uid}

\* the reset request that just ended left its token in the store, where
\* confirm_reset finds it
ResetTokenUsable ==
    /\ users[last.uid].reset_token = last.token
    /\ SelectByResetToken(last.token, clock) = {last.uid}
    /\ AuthConfirmSelect(last.token, "newpass1").pc = "update"

\* C26: when reset_password is called for a known email and sending the
\* email fails, the response is still 200 'Reset email sent if account
\* exists', and the reset token stored before the send is in the store and
\* accepted by confirm_reset.
C26_SendFailureKeepsToken ==
    [][(/\ last = Idle
        /\ last'.mod = "auth"
        /\ last'.op = "reset_password"
        /\ last'.wrote
        /\ ~last'.pre.sent)
       => (/\ last'.resp = success_response(MsgResetSent)
           /\ ResetTokenUsable')]_vars

C26_Witness ==
    /\ last.mod = "auth"
    /\ last.op = "reset_password"
    /\ last.wrote
    /\ ~last.pre.sent
    /\ last.uid = 1
    /\ last.resp = success_response(MsgResetSent)
    /\ users[1].reset_token = last.token
    /\ last.token # NULL

\* C25: no operation of the auth modules (register, login, reset_password,
\* confirm_reset, session check, logout) changes the id or the email of an
\* existing user record, and a step of reset_password leaves every
\* password hash as it was.
C25_IdAndEmailImmutable ==
    [][\A u \in DOMAIN users :
          /\ u \in DOMAIN users'
          /\ users'[u].email = users[u].email
          /\ (last'.op = "reset_password" \/ last.op = "reset_password")
                => users'[u].password_hash = users[u].password_hash]_vars

C25_Witness ==
    /\ last.mod = "auth"
    /\ last.op = "reset_password"
    /\ last.wrote
    /\ last.uid = 1
    /\ Cardinality(DOMAIN users) = 3
    /\ users[1].email = EmailA
    /\ users[1].password_hash = Hashpw("secret1", 0)
    /\ users[3].email = EmailN

\* C24: every handler invocation that opened a store connection has closed
\* it when the invocation ends, whichever path it took: success, validation
\* error, not found, an exception inside or outside the operation; an
\* invocation that opened none closes none.
C24_ConnectionClosedAtEnd ==
    (last.op = "invoke") =>
        /\ last.pre.opened = 1 => last.pre.conn = "closed"
        /\ last.pre.opened = 0 => last.pre.conn = ConnAtEntry(last.mod)
        /\ last.pre.opened <= 1

C24_Witness ==
    /\ last.op = "invoke"
    /\ last.mod = "transactions"
    /\ last.pre.path = "raised"
    /\ last.pre.opened = 1
    /\ last.pre.conn = "closed"
    /\ last.resp = error_response("Server error", 500)
    /\ \E p \in Procs : req[p].op = "invoke" /\ req[p].pre.conn = "open"

\* C30: an update_goal or update_event request that races with a delete of
\* the same record by its owner ends with the updated record (200) or with
\* NotFound (404), never with a 500 server error.
C30_RacingUpdateNever500 ==
    (/\ last.mod \in {"goals", "calendar_events"}
     /\ last.op = "update"
     /\ last.pre.owner = last.uid
     /\ last.uid # 0)
    => last.resp.statusCode # 500

---------------------------------------------------------------------------
(* Properties of transactions and their tags, checked under SpecTx *)

\* the tag ids of a request that are numbers the store accepts
ValidTagIds(data) ==
    LET tag_ids == DictGet(data, "tag_ids", <<>>)
    IN  {ToNumber(tag_ids[i]).val[2] :
            i \in {j \in DOMAIN tag_ids :
                      /\ ToNumber(tag_ids[j]).ok
                      /\ ToNumber(tag_ids[j]).val[1] = "int"}}

\* the tag ids linked to transaction t in the store
StoredTagIds(t) == {l[2] : l \in {k \in records["transaction_tags"] : k[1] = t}}

\* C21: a create_transaction whose tag_ids hold invalid ids (not numbers,
\* or refused by the store on insert) and that answers success has
\* committed the transaction row and the links to exactly the valid tag
\* ids, and lists exactly those tags in its response.
C21_InvalidTagsSkipped ==
    (/\ last.mod = "transactions"
     /\ last.op = "create"
     /\ last.resp.statusCode = 200)
    => /\ last.pre.rid \in DOMAIN records["transactions"]
       /\ StoredTagIds(last.pre.rid) = ValidTagIds(last.pre.data)
       /\ {t.id : t \in last.resp.data.tags} = ValidTagIds(last.pre.data)

\* the request names an amount that is not a number or a date that is not
\* a date in YYYY-MM-DD
Malformed(data) ==
    \/ /\ DictHas(data, "amount")
       /\ ~ToNumber(DictGet(data, "amount", IntVal(0))).ok
    \/ /\ DictHas(data, "date")
       /\ ~ParseDate(DictGet(data, "date", <<>>)).ok

\* C22: create_transaction and update_transaction answer an amount that is
\* not a number, or a date that is not in YYYY-MM-DD format, with a 4xx
\* response and persist nothing.
C22_MalformedIs4xx ==
    (/\ last.mod = "transactions"
     /\ last.op \in {"create", "update"}
     /\ last.uid # 0
     /\ Malformed(last.pre.data))
    => /\ last.resp.statusCode \in 400 .. 499
       /\ ~last.wrote

\* C28: every transaction-tag link joins a transaction and a tag of the
\* same user, and the transaction list of a caller shows only tags of that
\* caller.
C28_LinksWithinOneUser ==
    /\ \A l \in records["transaction_tags"] :
          (l[1] \in DOMAIN records["transactions"] /\ l[2] \in DOMAIN records["tags"])
          => records["transactions"][l[1]].user_id = records["tags"][l[2]].user_id
    /\ (last.mod = "transactions" /\ last.op = "list")
          => \A t \in DOMAIN last.resp.data :
                \A tag \in last.resp.data[t].tags :
                   records["tags"][tag.id].user_id = last.uid

\* C29: when update_transaction answers 200, the field changes it was
\* given are in the store, and when tag_ids was given the stored tags of
\* the transaction are the valid ids among those given.
C29_UpdateSuccessIsCommitted ==
    (/\ last.mod = "transactions"
     /\ last.op = "update"
     /\ last.resp.statusCode = 200)
    => LET t == last.pre.rid
           fields == UpdateFields("transactions", last.pre.data)
       IN  /\ t \in DOMAIN records["transactions"]
           /\ \A c \in DOMAIN fields : records["transactions"][t][c] = fields[c]
           /\ DictHas(last.pre.data, "tag_ids")
                 => StoredTagIds(t) = ValidTagIds(last.pre.data)

====
